---- MODULE Spec2Model ----
(***************************************************************************)
(* Model of src/logs_classes/hw4.py: the access-log parser (Parser), the   *)
(* seven statistics accumulators and the Statistics engine that feeds      *)
(* them and assembles the report.                                          *)
(*                                                                         *)
(* Representation.                                                         *)
(*  - A Python str is the tuple of its code points ("/a" is <<47, 97>>),   *)
(*    so that str comparison is code-point lexicographic order.            *)
(*  - A Python int that holds a response time is unbounded; it is carried  *)
(*    as two limbs [hi, lo] with value hi * Limb + lo, because 10**10 and  *)
(*    the times around it do not fit a machine word.                       *)
(*  - A dict is the sequence of its [key, val] items in insertion order    *)
(*    (the iteration order of a Python dict).                              *)
(*  - A log line is the record of its variable fields: ip, ts, method,     *)
(*    path, version (is the HTTP-version token there), ua and tail (the    *)
(*    text after the closing quote of the user agent).  The status, size   *)
(*    and referrer fields are well formed in every line of the model, and  *)
(*    no field contains a double quote.                                    *)
(***************************************************************************)
EXTENDS Integers, Sequences, FiniteSets, TLC

VARIABLES
    fastest_page,               \* FastestPageStat: [min_time, value]
    slowest_page,               \* SlowestPageStat: [max_time, value]
    slowest_average_page,       \* SlowestAveragePageStat._pages
    most_popular_page,          \* MostPopularPageStat._pages
    most_active_client,         \* MostActiveClientStat._clients
    most_popular_browser,       \* MostPopularBrowserStat._browsers
    most_active_client_by_day,  \* MostActiveClientByDayStat: [date, clients]
    returned,                   \* what the last call returned
    lines,                      \* history: every line given to add_line
    outcome                     \* history: how the last call ended

accs == <<fastest_page, slowest_page, slowest_average_page, most_popular_page,
          most_active_client, most_popular_browser, most_active_client_by_day>>

vars == <<fastest_page, slowest_page, slowest_average_page, most_popular_page,
          most_active_client, most_popular_browser, most_active_client_by_day,
          returned, lines, outcome>>

----------------------------------------------------------------------------
(* Bounds *)

MaxLines == 3

----------------------------------------------------------------------------
(* Python values *)

\* None where an int or a dict is expected (a record, as those are)
None == [none |-> TRUE]

\* None where a str is expected: no str holds a negative code point
NoneStr == <<-1>>

EmptyStr == << >>

\* str < str: code-point lexicographic order
LexLess(a, b) ==
    \E i \in 1..Len(b) :
        /\ i - 1 <= Len(a)
        /\ \A j \in 1..(i - 1) : a[j] = b[j]
        /\ (i > Len(a) \/ a[i] < b[i])

Limb == 10 ^ 8

Big(h, l) == [hi |-> h, lo |-> l]

BigZero == Big(0, 0)

BigLeq(a, b) == a.hi < b.hi \/ (a.hi = b.hi /\ a.lo <= b.lo)

BigAdd(a, b) ==
    LET s == a.lo + b.lo
    IN  Big(a.hi + b.hi + (s \div Limb), s % Limb)

\* a * n for a small n
BigMul(a, n) ==
    LET p == a.lo * n
    IN  Big(a.hi * n + (p \div Limb), p % Limb)

\* bool(int): zero is false
Truthy(t) == t # None /\ t # BigZero

IsDigit(c) == c \in 48..57

IsSpace(c) == c \in {9, 10, 11, 12, 13, 32}

\* int(str) for a str of decimal digits
RECURSIVE IntOf(_)
IntOf(s) ==
    IF s = << >> THEN BigZero
    ELSE BigAdd(BigMul(IntOf(SubSeq(s, 1, Len(s) - 1)), 10),
                Big(0, s[Len(s)] - 48))

----------------------------------------------------------------------------
(* Parser *)

Methods == {"GET", "PUT", "POST", "HEAD", "OPTIONS", "DELETE"}

Months == {"Jan", "Feb", "Mar", "Apr", "May", "Jun",
           "Jul", "Aug", "Sep", "Oct", "Nov", "Dec"}

MonthNumber(b) ==
    CASE b = "Jan" -> 1 [] b = "Feb" -> 2 [] b = "Mar" -> 3 [] b = "Apr" -> 4
      [] b = "May" -> 5 [] b = "Jun" -> 6 [] b = "Jul" -> 7 [] b = "Aug" -> 8
      [] b = "Sep" -> 9 [] b = "Oct" -> 10 [] b = "Nov" -> 11 [] b = "Dec" -> 12

IsLeap(y) == y % 4 = 0 /\ (y % 100 # 0 \/ y % 400 = 0)

DaysInMonth(y, m) ==
    IF m = 2 THEN (IF IsLeap(y) THEN 29 ELSE 28)
    ELSE IF m \in {4, 6, 9, 11} THEN 30 ELSE 31

\* datetime.strptime(ts, "%d/%b/%Y:%H:%M:%S %z") succeeds
ValidTimestamp(ts) ==
    /\ ts.b \in Months
    /\ ts.Y \in 1..9999
    /\ ts.d \in 1..DaysInMonth(ts.Y, MonthNumber(ts.b))
    /\ ts.H \in 0..23
    /\ ts.M \in 0..59
    /\ ts.S \in 0..59

\* datetime.date(): the time of day and the offset are dropped
DateOf(ts) == [year |-> ts.Y, month |-> MonthNumber(ts.b), day |-> ts.d]

\* (\d{1,3}\.){3}\d{1,3} followed by white space: s is the whole field
RECURSIVE IsGroups(_, _, _)
IsGroups(s, n, run) ==
    IF s = << >> THEN n = 1 /\ run \in 1..3
    ELSE IF IsDigit(Head(s)) THEN run < 3 /\ IsGroups(Tail(s), n, run + 1)
    ELSE /\ Head(s) = 46
         /\ run \in 1..3
         /\ n > 1
         /\ IsGroups(Tail(s), n - 1, 0)

IsIP(s) == IsGroups(s, 4, 0)

\* the longest prefix of decimal digits
RECURSIVE DigitRun(_)
DigitRun(s) ==
    IF s # << >> /\ IsDigit(Head(s)) THEN <<Head(s)>> \o DigitRun(Tail(s))
    ELSE << >>

\* (\s(?P<time>(\d+)))? right after the closing quote of the user agent:
\* there is no anchor after it, so the text behind the digits is ignored
TimeGroup(tail) ==
    IF Len(tail) >= 2 /\ IsSpace(tail[1]) /\ IsDigit(tail[2])
    THEN DigitRun(Tail(tail))
    ELSE NoneStr

\* (?P<page>(\S+)).\S+" : with the version token the dot takes the blank
\* before it; without it the dot and the last \S+ take one character each
\* off the end of the path
PageGroup(line) ==
    IF line.version THEN line.path
    ELSE SubSeq(line.path, 1, Len(line.path) - 2)

\* re.match(PATTERN, line) finds a match
Matches(line) ==
    /\ IsIP(line.ip)
    /\ line.method \in Methods
    /\ \A i \in 1..Len(line.path) : ~IsSpace(line.path[i])
    /\ Len(line.path) >= (IF line.version THEN 1 ELSE 3)
    /\ line.ua # << >>

\* data.groupdict()
GroupDict(line) ==
    [IP |-> line.ip, date |-> line.ts, page |-> PageGroup(line),
     User_Agent |-> line.ua, time |-> TimeGroup(line.tail)]

\* Parser.type_conversion, when strptime does not raise; a group that took
\* no part in the match is None, and None is falsy as the empty str is
type_conversion(group) ==
    [group EXCEPT !.date = DateOf(group.date),
                  !.time = IF group.time # NoneStr /\ group.time # EmptyStr
                           THEN IntOf(group.time)
                           ELSE None]

\* Parser.parse with the ValueError of strptime swallowed
Raises_never(line) == FALSE

\* strptime raises ValueError: the pattern matched and the timestamp is no
\* date and time
Raises(line) == Matches(line) /\ ~ValidTimestamp(line.ts)

\* Parser.parse without the test of the match
parse_unguarded(line) ==
    type_conversion(GroupDict(line))

\* Parser.parse, when it returns
parse(line) ==
    IF ~Matches(line) THEN None ELSE type_conversion(GroupDict(line))

----------------------------------------------------------------------------
(* dict and defaultdict, items in insertion order *)

EmptyDict == << >>

Keys(d) == [i \in 1..Len(d) |-> d[i].key]

KeySet(d) == {d[i].key : i \in 1..Len(d)}

Values(d) == [i \in 1..Len(d) |-> d[i].val]

IndexOf(d, k) == CHOOSE i \in 1..Len(d) : d[i].key = k

\* d[k] for a key that is there
Get(d, k) == d[IndexOf(d, k)].val

\* defaultdict.__getitem__: the value of d[k], the default for a missing key
Lookup(d, k, default) == IF k \in KeySet(d) THEN Get(d, k) ELSE default

\* d[k] = v: a new key goes behind the keys there are
Store(d, k, v) ==
    IF k \in KeySet(d)
    THEN [d EXCEPT ![IndexOf(d, k)].val = v]
    ELSE Append(d, [key |-> k, val |-> v])

\* the members of a set, in some order
RECURSIVE SeqOf(_)
SeqOf(S) ==
    IF S = {} THEN << >>
    ELSE LET x == CHOOSE x \in S : TRUE
         IN  <<x>> \o SeqOf(S \ {x})

\* max(ints)
MaxInt(s) == CHOOSE m \in {s[i] : i \in 1..Len(s)} :
                 \A i \in 1..Len(s) : s[i] <= m

\* sorted(strs), the strs being distinct
RECURSIVE Sorted(_)
Sorted(s) ==
    IF s = << >> THEN << >>
    ELSE LET least == CHOOSE i \in 1..Len(s) :
                          \A j \in 1..Len(s) : j = i \/ LexLess(s[i], s[j])
         IN  <<s[least]>> \o
             Sorted([j \in 1..(Len(s) - 1) |->
                        IF j < least THEN s[j] ELSE s[j + 1]])

----------------------------------------------------------------------------
(* lexicographic_min *)

\* lexicographic_min without sorted(): the keys in insertion order
lexicographic_min_unsorted(data) ==
    IF data = EmptyDict THEN EmptyStr
    ELSE LET max_value == MaxInt(Values(data))
             keys == Keys(data)
             hits == {i \in 1..Len(keys) : Get(data, keys[i]) = max_value}
         IN  IF hits = {} THEN NoneStr
             ELSE keys[CHOOSE i \in hits : \A j \in hits : i <= j]

lexicographic_min(data) ==
    IF data = EmptyDict THEN EmptyStr
    ELSE LET max_value == MaxInt(Values(data))
             keys == Sorted(Keys(data))
             hits == {i \in 1..Len(keys) : Get(data, keys[i]) = max_value}
         IN  IF hits = {} THEN NoneStr
             ELSE keys[CHOOSE i \in hits : \A j \in hits : i <= j]

----------------------------------------------------------------------------
(* Page *)

\* Page.__init__; the average is the quotient num / den
NewPage == [total_time |-> BigZero, count |-> 0,
            avg_time |-> [num |-> BigZero, den |-> 1]]

\* Page.add_time with Page.calculate_avg_time; count is at least 1 at the
\* division
add_time(p, time) ==
    LET total == BigAdd(p.total_time, time)
        n == p.count + 1
    IN  [total_time |-> total, count |-> n,
         avg_time |-> [num |-> total, den |-> n]]

\* a < b for two quotients of an int by a count.  True division rounds
\* correctly, so equal quotients give equal floats, and unequal ones are
\* at least 1 / (a.den * b.den) apart, which the rounding cannot bridge
AvgLess(a, b) ==
    LET x == BigMul(a.num, b.den)
        y == BigMul(b.num, a.den)
    IN  BigLeq(x, y) /\ x # y

\* abs(a - b) < 0.1 ** 10: with a.den * b.den below 10 ** 10 only equal
\* quotients are that close
AvgClose(a, b) == BigMul(a.num, b.den) = BigMul(b.num, a.den)

\* Page.max whose loop looks for an average above the largest one
Page_max_above(pages) ==
    LET avgs == [i \in 1..Len(pages) |-> pages[i].val.avg_time]
        top == CHOOSE i \in 1..Len(pages) :
                   /\ \A j \in 1..Len(pages) : ~AvgLess(avgs[i], avgs[j])
                   /\ \A j \in 1..(i - 1) : AvgLess(avgs[j], avgs[i])
        hits == {i \in 1..Len(pages) :
                    AvgLess(avgs[top], Get(pages, pages[i].key).avg_time)}
    IN  IF hits = {} THEN NoneStr
        ELSE pages[CHOOSE i \in hits : \A j \in hits : i <= j].key

\* Page.max: max() keeps the first of the largest items
Page_max(pages) ==
    LET avgs == [i \in 1..Len(pages) |-> pages[i].val.avg_time]
        top == CHOOSE i \in 1..Len(pages) :
                   /\ \A j \in 1..Len(pages) : ~AvgLess(avgs[i], avgs[j])
                   /\ \A j \in 1..(i - 1) : AvgLess(avgs[j], avgs[i])
        hits == {i \in 1..Len(pages) :
                    AvgClose(Get(pages, pages[i].key).avg_time, avgs[top])}
    IN  IF hits = {} THEN NoneStr
        ELSE pages[CHOOSE i \in hits : \A j \in hits : i <= j].key

----------------------------------------------------------------------------
(* The accumulators *)

\* 10 ** 10
FastestInitTime == Big(100, 0)

FastestPageStat_init == [min_time |-> FastestInitTime, value |-> EmptyStr]

FastestPageStat_update(s, time, page) ==
    IF BigLeq(time, s.min_time) THEN [min_time |-> time, value |-> page]
    ELSE s

SlowestPageStat_init == [max_time |-> BigZero, value |-> EmptyStr]

SlowestPageStat_update(s, time, page) ==
    IF BigLeq(s.max_time, time) THEN [max_time |-> time, value |-> page]
    ELSE s

SlowestAveragePageStat_update(pages, time, page) ==
    Store(pages, page, add_time(Lookup(pages, page, NewPage), time))

SlowestAveragePageStat_value(pages) ==
    IF pages # EmptyDict THEN Page_max(pages) ELSE EmptyStr

\* the counters with = 1 in place of += 1
Counter_update_set_one(counts, key) ==
    Store(counts, key, 1)

\* MostPopularPageStat, MostActiveClientStat and MostPopularBrowserStat
Counter_update(counts, key) ==
    Store(counts, key, Lookup(counts, key, 0) + 1)

TargetDate == [year |-> 2012, month |-> 7, day |-> 8]

MostActiveClientByDayStat_init == [date |-> TargetDate, clients |-> EmptyDict]

\* MostActiveClientByDayStat.update without the test of the date
MostActiveClientByDayStat_update_any_day(s, date, client) ==
    [s EXCEPT !.clients = Counter_update(@, client)]

\* MostActiveClientByDayStat.update that reads the counter of the client
\* before it tests the date: the defaultdict inserts the key with 0
MostActiveClientByDayStat_update_reads_first(s, date, client) ==
    IF s.date # date
    THEN [s EXCEPT !.clients = Store(@, client, Lookup(@, client, 0))]
    ELSE [s EXCEPT !.clients = Counter_update(@, client)]

MostActiveClientByDayStat_update(s, date, client) ==
    IF s.date # date THEN s
    ELSE [s EXCEPT !.clients = Counter_update(@, client)]

\* MostActiveClientByDayStat.value giving the bare str
MostActiveClientByDayStat_value_bare(s) ==
    lexicographic_min(s.clients)

MostActiveClientByDayStat_value(s) ==
    [d \in {s.date} |-> lexicographic_min(s.clients)]

----------------------------------------------------------------------------
(* The lines the model feeds *)

\* "/a"
PageA == <<47, 97>>

\* "/ab"
PageAB == <<47, 97, 98>>

\* "/b"
PageB == <<47, 98>>

\* "/b/x"
PathBX == <<47, 98, 47, 120>>

\* "1.1.1.9"
IP9 == <<49, 46, 49, 46, 49, 46, 57>>

\* "1.1.1.10"
IP10 == <<49, 46, 49, 46, 49, 46, 49, 48>>

\* "1.1.1"
IPShort == <<49, 46, 49, 46, 49>>

\* "Op"
Opera == <<79, 112>>

\* "Ch"
Chrome == <<67, 104>>

\* " 0"
Tail0 == <<32, 48>>

\* " 3"
Tail3 == <<32, 51>>

\* " 5"
Tail5 == <<32, 53>>

\* " 10000000001"
TailOverSentinel == <<32, 49, 48, 48, 48, 48, 48, 48, 48, 48, 48, 49>>

\* " xyz"
TailWord == <<32, 120, 121, 122>>

\* " 7abc"
TailDigitsWord == <<32, 55, 97, 98, 99>>

NoTail == << >>

Jul8 == [d |-> 8, b |-> "Jul", Y |-> 2012, H |-> 6, M |-> 31, S |-> 57]

Jul8Late == [d |-> 8, b |-> "Jul", Y |-> 2012, H |-> 23, M |-> 59, S |-> 59]

Jul9 == [d |-> 9, b |-> "Jul", Y |-> 2012, H |-> 6, M |-> 31, S |-> 57]

Jun31 == [d |-> 31, b |-> "Jun", Y |-> 2012, H |-> 6, M |-> 31, S |-> 57]

Line(ip, ts, method, path, version, ua, tail) ==
    [ip |-> ip, ts |-> ts, method |-> method, path |-> path,
     version |-> version, ua |-> ua, tail |-> tail]

Lines ==
    { Line(IP9,  Jul8,     "GET",   PageB,  TRUE,  Chrome, NoTail),
      Line(IP10, Jul8,     "GET",   PageA,  TRUE,  Opera,  Tail5),
      Line(IP9,  Jul9,     "GET",   PageAB, TRUE,  Opera,  Tail5),
      Line(IP10, Jul9,     "POST",  PageB,  TRUE,  Chrome, Tail0),
      Line(IP9,  Jul8Late, "GET",   PageA,  TRUE,  Opera,  Tail3),
      Line(IP9,  Jul9,     "GET",   PageB,  TRUE,  Opera,  TailOverSentinel),
      Line(IP9,  Jul8,     "FETCH", PageA,  TRUE,  Opera,  Tail5),
      Line(IPShort, Jun31, "GET",   PageA,  TRUE,  Opera,  Tail5),
      Line(IP9,  Jun31,    "GET",   PageA,  TRUE,  Opera,  Tail5),
      Line(IP10, Jul9,     "GET",   PageAB, TRUE,  Opera,  TailWord),
      Line(IP9,  Jul9,     "GET",   PageB,  TRUE,  Chrome, TailDigitsWord),
      Line(IP9,  Jul8,     "GET",   PathBX, FALSE, Opera,  NoTail) }

----------------------------------------------------------------------------
(* Statistics *)

\* Statistics.__init__ (make_stat)
Init ==
    /\ fastest_page = FastestPageStat_init
    /\ slowest_page = SlowestPageStat_init
    /\ slowest_average_page = EmptyDict
    /\ most_popular_page = EmptyDict
    /\ most_active_client = EmptyDict
    /\ most_popular_browser = EmptyDict
    /\ most_active_client_by_day = MostActiveClientByDayStat_init
    /\ returned = None
    /\ lines = << >>
    /\ outcome = "constructed"

\* if group['time']: the guard of the three timed accumulators
HasTime(group) == Truthy(group.time)

\* Statistics.update with the four untimed updates inside the if
update_all_inside_if(group) ==
    IF HasTime(group)
    THEN /\ fastest_page' =
                FastestPageStat_update(fastest_page, group.time, group.page)
         /\ slowest_page' =
                SlowestPageStat_update(slowest_page, group.time, group.page)
         /\ slowest_average_page' =
                SlowestAveragePageStat_update(slowest_average_page,
                                              group.time, group.page)
         /\ most_popular_page' = Counter_update(most_popular_page, group.page)
         /\ most_active_client' = Counter_update(most_active_client, group.IP)
         /\ most_popular_browser' =
                Counter_update(most_popular_browser, group.User_Agent)
         /\ most_active_client_by_day' =
                MostActiveClientByDayStat_update(most_active_client_by_day,
                                                 group.date, group.IP)
    ELSE UNCHANGED accs

\* Statistics.update that counts the client where it is to count the page
update_page_counts_client(group) ==
    /\ IF HasTime(group)
       THEN /\ fastest_page' =
                   FastestPageStat_update(fastest_page, group.time, group.page)
            /\ slowest_page' =
                   SlowestPageStat_update(slowest_page, group.time, group.page)
            /\ slowest_average_page' =
                   SlowestAveragePageStat_update(slowest_average_page,
                                                 group.time, group.page)
       ELSE UNCHANGED <<fastest_page, slowest_page, slowest_average_page>>
    /\ most_popular_page' = Counter_update(most_popular_page, group.IP)
    /\ most_active_client' = Counter_update(most_active_client, group.IP)
    /\ most_popular_browser' =
           Counter_update(most_popular_browser, group.User_Agent)
    /\ most_active_client_by_day' =
           MostActiveClientByDayStat_update(most_active_client_by_day,
                                            group.date, group.IP)

\* Statistics.update
update(group) ==
    /\ IF HasTime(group)
       THEN /\ fastest_page' =
                   FastestPageStat_update(fastest_page, group.time, group.page)
            /\ slowest_page' =
                   SlowestPageStat_update(slowest_page, group.time, group.page)
            /\ slowest_average_page' =
                   SlowestAveragePageStat_update(slowest_average_page,
                                                 group.time, group.page)
       ELSE UNCHANGED <<fastest_page, slowest_page, slowest_average_page>>
    /\ most_popular_page' = Counter_update(most_popular_page, group.page)
    /\ most_active_client' = Counter_update(most_active_client, group.IP)
    /\ most_popular_browser' =
           Counter_update(most_popular_browser, group.User_Agent)
    /\ most_active_client_by_day' =
           MostActiveClientByDayStat_update(most_active_client_by_day,
                                            group.date, group.IP)

\* Statistics.add_line: it returns None, or strptime's ValueError leaves
\* through it
add_line(line) ==
    /\ Len(lines) < MaxLines
    /\ lines' = Append(lines, line)
    /\ returned' = None
    /\ IF Raises(line)
       THEN /\ outcome' = "ValueError"
            /\ UNCHANGED accs
       ELSE /\ outcome' = "returned"
            /\ LET grouped_data == parse(line)
               IN  IF grouped_data # None THEN update(grouped_data)
                   ELSE UNCHANGED accs

\* the dict of Statistics.results
Report ==
    [FastestPage |-> fastest_page.value,
     MostActiveClient |-> lexicographic_min(most_active_client),
     MostActiveClientByDay |->
         MostActiveClientByDayStat_value(most_active_client_by_day),
     MostPopularBrowser |-> lexicographic_min(most_popular_browser),
     MostPopularPage |-> lexicographic_min(most_popular_page),
     SlowestAveragePage |->
         SlowestAveragePageStat_value(slowest_average_page),
     SlowestPage |-> slowest_page.value]

\* a lookup of data[""] besides those of the keys the dict holds
KeysRead_and_empty(data) == KeySet(data) \cup {EmptyStr}

\* the keys lexicographic_min and Page.max look up with data[key]
KeysRead(data) == {Keys(data)[i] : i \in 1..Len(data)}

\* a defaultdict after data[key] for each key of ks: a missing key is
\* inserted with the default
AfterReads(data, ks, default) ==
    LET missing == Sorted(SeqOf(ks \ KeySet(data)))
    IN  data \o [i \in 1..Len(missing) |->
                    [key |-> missing[i], val |-> default]]

\* Statistics.results
results ==
    /\ returned' = Report
    /\ outcome' = "returned"
    /\ slowest_average_page' =
           AfterReads(slowest_average_page, KeysRead(slowest_average_page),
                      NewPage)
    /\ most_popular_page' =
           AfterReads(most_popular_page, KeysRead(most_popular_page), 0)
    /\ most_active_client' =
           AfterReads(most_active_client, KeysRead(most_active_client), 0)
    /\ most_popular_browser' =
           AfterReads(most_popular_browser, KeysRead(most_popular_browser), 0)
    /\ most_active_client_by_day' =
           [most_active_client_by_day EXCEPT
               !.clients = AfterReads(@, KeysRead(@), 0)]
    /\ UNCHANGED <<fastest_page, slowest_page, lines>>

Next ==
    \/ \E line \in Lines : add_line(line)
    \/ results

Spec == Init /\ [][Next]_vars

----------------------------------------------------------------------------
(* What the history says: the records of the lines fed so far *)

\* the line was parsed into a record
Parsed(line) == Matches(line) /\ ValidTimestamp(line.ts)

\* the records of the parsed lines, in the order fed
Records ==
    LET ok == SelectSeq(lines, Parsed)
    IN  [i \in 1..Len(ok) |-> parse(ok[i])]

\* of the records rs, those whose line had the trailing integer
Timed(rs) == SelectSeq(rs, LAMBDA r : r.time # None)

\* the step is add_line(line)
Fed(line) == lines' = Append(lines, line)

LastLine == lines[Len(lines)]

MinTimeOf(rs) ==
    CHOOSE t \in {rs[i].time : i \in 1..Len(rs)} :
        \A i \in 1..Len(rs) : BigLeq(t, rs[i].time)

MaxTimeOf(rs) ==
    CHOOSE t \in {rs[i].time : i \in 1..Len(rs)} :
        \A i \in 1..Len(rs) : BigLeq(rs[i].time, t)

\* the page of the last record of rs with time t
LastPageWith(rs, t) ==
    rs[CHOOSE i \in 1..Len(rs) :
           /\ rs[i].time = t
           /\ \A j \in (i + 1)..Len(rs) : rs[j].time # t].page

RECURSIVE SumTimes(_)
SumTimes(rs) ==
    IF rs = << >> THEN BigZero
    ELSE BigAdd(rs[1].time, SumTimes(Tail(rs)))

\* the mean response time of a page over the timed records rs, as a quotient
MeanOf(rs, page) ==
    LET own == SelectSeq(rs, LAMBDA r : r.page = page)
    IN  [num |-> SumTimes(own), den |-> Len(own)]

\* where the first record of the page stands in rs
FirstOf(rs, page) ==
    CHOOSE i \in 1..Len(rs) :
        /\ rs[i].page = page
        /\ \A j \in 1..(i - 1) : rs[j].page # page

\* the first seen of the pages with the largest mean over the timed
\* records rs
SlowestMeanPage(rs) ==
    LET pages == {rs[i].page : i \in 1..Len(rs)}
        mean == [p \in pages |-> MeanOf(rs, p)]
        top == {p \in pages : \A q \in pages : ~AvgLess(mean[p], mean[q])}
    IN  CHOOSE p \in top : \A q \in top : FirstOf(rs, p) <= FirstOf(rs, q)

\* the keys the records rs carry in field f
SeenKeys(rs, f) == {rs[i][f] : i \in 1..Len(rs)}

\* the least, in str order, of the keys that most records of rs carry in
\* field f
Winner(rs, f) ==
    LET keys == SeenKeys(rs, f)
        count == [k \in keys |->
                     Cardinality({i \in 1..Len(rs) : rs[i][f] = k})]
    IN  CHOOSE k \in keys :
            /\ \A o \in keys : count[o] <= count[k]
            /\ \A o \in keys :
                   count[o] = count[k] => (o = k \/ LexLess(k, o))

\* the count a counting dict holds for a key, 0 for a key it lacks
Count(d, k) == IF k \in KeySet(d) THEN Get(d, k) ELSE 0

----------------------------------------------------------------------------
(* Claims *)

\* C1: every parsed record whose line has the trailing integer, 0 included,
\* is fed with (time, page) to FastestPage, SlowestPage and
\* SlowestAveragePage.
C1_TimedRecordFeedsTimedStats ==
    [][\A line \in Lines :
          (Fed(line) /\ Parsed(line)) =>
              LET group == parse(line)
              IN  group.time # None =>
                      /\ fastest_page' = FastestPageStat_update(
                             fastest_page, group.time, group.page)
                      /\ slowest_page' = SlowestPageStat_update(
                             slowest_page, group.time, group.page)
                      /\ slowest_average_page' =
                             SlowestAveragePageStat_update(
                                 slowest_average_page, group.time, group.page)
       ]_vars

\* C2: FastestPage is "" exactly when no timed record was fed; otherwise it
\* is the page of the last timed record whose time is the least time of all
\* timed records, however large the times are.
C2_FastestIsLastOfMinimum ==
    LET rs == Timed(Records)
    IN  fastest_page.value =
            IF rs = << >> THEN EmptyStr
            ELSE LastPageWith(rs, MinTimeOf(rs))

\* C3: SlowestPage is "" exactly when no timed record was fed; otherwise it
\* is the page of the last timed record whose time is the greatest time of
\* all timed records.
C3_SlowestIsLastOfMaximum ==
    LET rs == Timed(Records)
    IN  slowest_page.value =
            IF rs = << >> THEN EmptyStr
            ELSE LastPageWith(rs, MaxTimeOf(rs))

\* C4: SlowestAveragePage is "" when no timed record was fed; otherwise it
\* is, of the pages whose mean time is the largest mean, the one whose first
\* timed record was fed first.
C4_SlowestAverageIsFirstSeenOfMaximum ==
    LET rs == Timed(Records)
    IN  SlowestAveragePageStat_value(slowest_average_page) =
            IF rs = << >> THEN EmptyStr ELSE SlowestMeanPage(rs)

\* C5: MostPopularPage, MostActiveClient and MostPopularBrowser are each
\* the lexicographically least key among the keys carried by the most
\* parsed records, timed or not; the counts are those of the multiset of
\* records, so the order of the lines does not matter.
C5_PopularityIsLeastOfMostCounted ==
    LET rs == Records
    IN  rs # << >> =>
            /\ lexicographic_min(most_popular_page) = Winner(rs, "page")
            /\ lexicographic_min(most_active_client) = Winner(rs, "IP")
            /\ lexicographic_min(most_popular_browser) =
                   Winner(rs, "User_Agent")

\* two pages tie for the largest count and the one counted first is not the
\* least of them
C5_Witness ==
    /\ Len(most_popular_page) >= 2
    /\ most_popular_page[1].val = MaxInt(Values(most_popular_page))
    /\ most_popular_page[2].val = most_popular_page[1].val
    /\ LexLess(most_popular_page[2].key, most_popular_page[1].key)
    /\ returned = Report

\* C6: feeding a parsed record without the trailing integer adds one to the
\* count of its page, its client and its browser (and to the by-day count
\* of its client when the date is the target date) and leaves FastestPage,
\* SlowestPage and SlowestAveragePage as they were.
C6_UntimedRecordLeavesTimedStats ==
    [][\A line \in Lines :
          (Fed(line) /\ Parsed(line)) =>
              LET g == parse(line)
                  day == IF g.date = [year |-> 2012, month |-> 7, day |-> 8]
                         THEN 1 ELSE 0
              IN  g.time = None =>
                      /\ UNCHANGED <<fastest_page, slowest_page,
                                     slowest_average_page>>
                      /\ Count(most_popular_page', g.page) =
                             Count(most_popular_page, g.page) + 1
                      /\ Count(most_active_client', g.IP) =
                             Count(most_active_client, g.IP) + 1
                      /\ Count(most_popular_browser', g.User_Agent) =
                             Count(most_popular_browser, g.User_Agent) + 1
                      /\ Count(most_active_client_by_day'.clients, g.IP) =
                             Count(most_active_client_by_day.clients, g.IP)
                                 + day
       ]_vars

\* an untimed record of the target date was fed after a timed one
C6_Witness ==
    /\ lines # << >>
    /\ Parsed(LastLine)
    /\ parse(LastLine).time = None
    /\ parse(LastLine).date = TargetDate
    /\ slowest_average_page # EmptyDict
    /\ fastest_page.value # EmptyStr

C8_EmptyReport ==
    (lines = << >> /\ returned # None) =>
        returned = [FastestPage |-> EmptyStr,
                  MostActiveClient |-> EmptyStr,
                  MostActiveClientByDay |->
                      [d \in {[year |-> 2012, month |-> 7, day |-> 8]} |->
                          EmptyStr],
                  MostPopularBrowser |-> EmptyStr,
                  MostPopularPage |-> EmptyStr,
                  SlowestAveragePage |-> EmptyStr,
                  SlowestPage |-> EmptyStr]

\* results() was called on the engine as constructed
C8_Witness == lines = << >> /\ returned # None /\ outcome = "returned"

\* C9: the report has exactly the seven keys; no value is None; each str
\* is "" or the page, client or browser of a parsed record, and the by-day
\* value is a one-entry mapping from the target date to such a str.
C9_ReportIsTotal ==
    LET rs == Records
        r == Report
        pages == SeenKeys(rs, "page") \cup {EmptyStr}
        clients == SeenKeys(rs, "IP") \cup {EmptyStr}
        browsers == SeenKeys(rs, "User_Agent") \cup {EmptyStr}
    IN  /\ DOMAIN r =
               {"FastestPage", "MostActiveClient", "MostActiveClientByDay",
                "MostPopularBrowser", "MostPopularPage",
                "SlowestAveragePage", "SlowestPage"}
        /\ r.FastestPage \in pages
        /\ r.SlowestPage \in pages
        /\ r.SlowestAveragePage \in pages
        /\ r.MostPopularPage \in pages
        /\ r.MostActiveClient \in clients
        /\ r.MostPopularBrowser \in browsers
        /\ DOMAIN r.MostActiveClientByDay = {TargetDate}
        /\ r.MostActiveClientByDay[TargetDate] \in clients

\* a report was returned all of whose values come from records, two pages
\* sharing the largest average
C9_Witness ==
    /\ returned = Report
    /\ returned.FastestPage # EmptyStr
    /\ returned.SlowestAveragePage # EmptyStr
    /\ returned.MostActiveClientByDay[TargetDate] # EmptyStr
    /\ Len(slowest_average_page) >= 2
    /\ AvgClose(slowest_average_page[1].val.avg_time,
                slowest_average_page[2].val.avg_time)

\* C10: MostActiveClientByDay is a one-entry mapping from 2012-07-08 to the
\* lexicographically least client among those with the most parsed records
\* of that date, or to "" when no parsed record has that date.
C10_ByDayIsLeastOfMostCountedThatDay ==
    LET july8 == [year |-> 2012, month |-> 7, day |-> 8]
        rs == SelectSeq(Records, LAMBDA r : r.date = july8)
        value == MostActiveClientByDayStat_value(most_active_client_by_day)
    IN  /\ DOMAIN value = {july8}
        /\ value[july8] = IF rs = << >> THEN EmptyStr ELSE Winner(rs, "IP")

\* the most active client of the target date is not the most active client
C10_Witness ==
    /\ returned = Report
    /\ returned.MostActiveClientByDay[TargetDate] # EmptyStr
    /\ returned.MostActiveClientByDay[TargetDate] # returned.MostActiveClient

\* C11: add_line of a line the pattern matches but whose timestamp is no
\* valid date and time ends with the error raised to the caller and leaves
\* every accumulator as it was; the engine stays usable: a parsed line fed
\* after a failed call is counted as any other.
C11_BadTimestampRaisesAndChangesNothing ==
    [][\A line \in Lines :
          Fed(line) =>
              /\ (Matches(line) /\ ~ValidTimestamp(line.ts)) =>
                     (outcome' = "ValueError" /\ UNCHANGED accs)
              /\ (outcome = "ValueError" /\ Parsed(line)) =>
                     LET g == parse(line)
                     IN  /\ outcome' = "returned"
                         /\ Count(most_popular_page', g.page) =
                                Count(most_popular_page, g.page) + 1
                         /\ Count(most_active_client', g.IP) =
                                Count(most_active_client, g.IP) + 1
                         /\ Count(most_popular_browser', g.User_Agent) =
                                Count(most_popular_browser, g.User_Agent) + 1
       ]_vars

\* a parsed line, a line that raised, and a parsed line again
C11_Witness ==
    /\ Len(lines) = 3
    /\ Parsed(lines[1])
    /\ Matches(lines[2]) /\ ~ValidTimestamp(lines[2].ts)
    /\ Parsed(lines[3])
    /\ outcome = "returned"
    /\ Len(most_popular_browser) = 1
    /\ most_popular_browser[1].val = 2

\* the text after the user agent is what the grammar allows there: nothing,
\* or one blank and an integer
TailInGrammar(tail) ==
    \/ tail = << >>
    \/ /\ Len(tail) >= 2
       /\ tail[1] = 32
       /\ \A i \in 2..Len(tail) : IsDigit(tail[i])

\* C12: a line is taken as a record only if the whole line has the shape of
\* the grammar: a well-formed record followed by other text than the one
\* optional integer is dropped, no accumulator changes and nothing is raised.
C12_TrailingTextIsDropped ==
    [][\A line \in Lines :
          (Fed(line) /\ ~TailInGrammar(line.tail)) =>
              (UNCHANGED accs /\ outcome' = "returned")]_vars

\* C13: feeding a parsed record whose date is not the target date leaves
\* the by-day counters as they were, no key added and no count changed,
\* and adds one to the count MostActiveClient holds for its client.
C13_OtherDayLeavesByDayCounters ==
    [][\A line \in Lines :
          (Fed(line) /\ Parsed(line)) =>
              LET g == parse(line)
              IN  g.date # [year |-> 2012, month |-> 7, day |-> 8] =>
                      /\ UNCHANGED most_active_client_by_day
                      /\ Count(most_active_client', g.IP) =
                             Count(most_active_client, g.IP) + 1
       ]_vars

\* a record of another day was fed last, from a client the by-day counters,
\* which hold another client, do not know
C13_Witness ==
    /\ lines # << >>
    /\ Parsed(LastLine)
    /\ parse(LastLine).date # TargetDate
    /\ most_active_client_by_day.clients # EmptyDict
    /\ parse(LastLine).IP \notin KeySet(most_active_client_by_day.clients)
    /\ parse(LastLine).IP \in KeySet(most_active_client)

\* C14: every entry of the page map of SlowestAveragePage has a count of at
\* least 1, the count being the number of timed records fed for its page and
\* the total the sum of their times; no entry has count 0.
C14_PageStatsMatchTimedRecords ==
    LET rs == Timed(Records)
    IN  \A i \in 1..Len(slowest_average_page) :
            LET e == slowest_average_page[i]
                own == SelectSeq(rs, LAMBDA r : r.page = e.key)
            IN  /\ e.val.count >= 1
                /\ e.val.count = Len(own)
                /\ e.val.total_time = SumTimes(own)

RECURSIVE SumCounts(_)
SumCounts(d) == IF d = << >> THEN 0 ELSE d[1].val + SumCounts(Tail(d))

\* C15: between calls the counts of MostPopularPage, of MostActiveClient and
\* of MostPopularBrowser each add up to the number of lines parsed so far,
\* and the by-day counts add up to the number of those dated 2012-07-08.
C15_CountsAddUpToParsedLines ==
    LET rs == Records
        day == SelectSeq(rs, LAMBDA r :
                   r.date = [year |-> 2012, month |-> 7, day |-> 8])
    IN  /\ SumCounts(most_popular_page) = Len(rs)
        /\ SumCounts(most_active_client) = Len(rs)
        /\ SumCounts(most_popular_browser) = Len(rs)
        /\ SumCounts(most_active_client_by_day.clients) = Len(day)

\* three lines were fed, one of them dropped or failed, the two parsed ones
\* sharing their browser and only one of them of the target date
C15_Witness ==
    /\ Len(lines) = 3
    /\ Len(Records) = 2
    /\ Len(most_popular_browser) = 1
    /\ SumCounts(most_active_client_by_day.clients) = 1
    /\ \E i \in 1..3 : Raises(lines[i])

\* C16: results() only reads: a call leaves every accumulator as it was, no
\* key being inserted into a counting dict or into the page map, and a call
\* that follows another returns the same report.
C16_ResultsOnlyReads ==
    [][lines' = lines =>
          /\ UNCHANGED accs
          /\ returned # None => returned' = returned]_vars

\* results() was called twice in a row on an engine whose dicts all hold
\* keys
C16_Witness ==
    /\ returned # None
    /\ returned = Report
    /\ slowest_average_page # EmptyDict
    /\ most_active_client_by_day.clients # EmptyDict
    /\ Len(most_popular_page) >= 2

\* C17: a non-empty FastestPage, SlowestPage or SlowestAveragePage is a key
\* of the dict of MostPopularPage; a non-empty by-day client is a key of the
\* dict of MostActiveClient, counted there at least as often as by day; and
\* once FastestPage and SlowestPage are both non-empty the least time held
\* is not above the greatest time held.
C17_AccumulatorsAgree ==
    LET pages == KeySet(most_popular_page)
        slowest_average == SlowestAveragePageStat_value(slowest_average_page)
        by_day == lexicographic_min(most_active_client_by_day.clients)
    IN  /\ fastest_page.value # EmptyStr => fastest_page.value \in pages
        /\ slowest_page.value # EmptyStr => slowest_page.value \in pages
        /\ slowest_average # EmptyStr => slowest_average \in pages
        /\ by_day # EmptyStr =>
               /\ by_day \in KeySet(most_active_client)
               /\ Get(most_active_client, by_day) >=
                      Get(most_active_client_by_day.clients, by_day)
        /\ (fastest_page.value # EmptyStr /\ slowest_page.value # EmptyStr)
               => BigLeq(fastest_page.min_time, slowest_page.max_time)

\* the fastest and the slowest page differ, and the by-day client has more
\* records than those of the target date
C17_Witness ==
    LET by_day == lexicographic_min(most_active_client_by_day.clients)
    IN  /\ fastest_page.value # EmptyStr
        /\ slowest_page.value # fastest_page.value
        /\ fastest_page.min_time # slowest_page.max_time
        /\ slowest_average_page # EmptyDict
        /\ by_day # EmptyStr
        /\ Get(most_active_client, by_day) >
               Get(most_active_client_by_day.clients, by_day)

====
